---- MODULE Spec2Model ----
(***************************************************************************)
(* Model of aeron-client/src/main/c/aeron_subscription.c: a subscription   *)
(* whose image lists form a chain published by the client conductor (the   *)
(* writer thread) and read by one polling application thread (the reader). *)
(* Each action is one step of one of the two threads; shared memory is     *)
(* sequentially consistent (AERON_PUT_ORDERED / AERON_GET_VOLATILE).       *)
(***************************************************************************)
EXTENDS Integers, Sequences, FiniteSets, TLC

\* ------------------------------------------------------------------ bounds
MaxLists == 3      \* image lists the conductor allocates in one run
MaxLen == 2        \* longest image array; arrays have 0, 1 or MaxLen images
MaxYield == 1      \* most fragments one aeron_image_poll call returns
MaxLimit == 1      \* small fragment limits 0..MaxLimit, next to the limit 10

NULL == 0
ListIds == 1..MaxLists
ImageArrays == {[k \in 1..n |-> k] : n \in {0, 1, MaxLen}}
FragmentLimits == (0..MaxLimit) \cup {10}

Min(a, b) == IF a < b THEN a ELSE b

RECURSIVE SumCounts(_)
SumCounts(s) == IF s = <<>> THEN 0 ELSE s[1].count + SumCounts(Tail(s))

VARIABLES
    subscription,       \* "null" | "live" | "deleted": *subscription of create
    create,             \* [called, alloc_ok, rc]: the last aeron_subscription_create
    lists,              \* heap: id -> [status, change_number, array, next_list]
    image_lists_head,   \* conductor_fields.image_lists_head.next_list
    next_change_number, \* conductor_fields.next_change_number
    last_image_list_change_number,
    round_robin_index,
    is_closed,
    wpc,                \* conductor's position
    new_list,           \* image_list of new_image_list
    prune_lists_head,   \* local of prune: NULL stands for &image_lists_head
    last_change_number, \* local of prune
    pass,               \* history: the chain at the start of the prune pass,
                        \*          the lists it released, its loop iterations
    rpc,                \* reader's position
    image_list,         \* locals of aeron_subscription_poll
    length,
    starting_index,
    fragments_read,
    fragment_limit,
    i,
    calls,              \* history: the aeron_image_poll calls of this poll
    prev_list,          \* history: image_list and starting_index of the
    prev_start,         \*          previous completed poll call
    installed,          \* history: change numbers in order of publication
    derefFreed,         \* history: the reader read a released image list
    faulted             \* the process took a fault (NULL dereference)

shared == <<subscription, create, lists, image_lists_head, next_change_number,
            last_image_list_change_number, round_robin_index, is_closed>>
writer == <<wpc, new_list, prune_lists_head, last_change_number, pass>>
reader == <<rpc, image_list, length, starting_index, fragments_read,
            fragment_limit, i, calls>>
history == <<prev_list, prev_start, installed, derefFreed, faulted>>
vars == <<shared, writer, reader, history>>

FreshList == [status |-> "unallocated", change_number |-> -1,
              array |-> <<>>, next_list |-> NULL]

\* Released memory: its content is gone (a read of it is recorded in
\* derefFreed and yields these values).
FreedList == [status |-> "freed", change_number |-> -1,
              array |-> <<>>, next_list |-> NULL]

NoPass == [chain |-> <<>>, released |-> <<>>, steps |-> 0]

Init ==
    /\ subscription = "null"
    /\ create = [called |-> FALSE, alloc_ok |-> FALSE, rc |-> 0]
    /\ lists = [n \in ListIds |-> FreshList]
    /\ image_lists_head = NULL
    /\ next_change_number = 0
    /\ last_image_list_change_number = -1
    /\ round_robin_index = 0
    /\ is_closed = FALSE
    /\ wpc = "idle"
    /\ new_list = NULL
    /\ prune_lists_head = NULL
    /\ last_change_number = -1
    /\ pass = NoPass
    /\ rpc = "idle"
    /\ image_list = NULL
    /\ length = 0
    /\ starting_index = 0
    /\ fragments_read = 0
    /\ fragment_limit = 0
    /\ i = 0
    /\ calls = <<>>
    /\ prev_list = NULL
    /\ prev_start = 0
    /\ installed = <<>>
    /\ derefFreed = FALSE
    /\ faulted = FALSE

Live == subscription = "live" /\ ~faulted

\* ------------------------------------------------------------- lifecycle

\* The value aeron_subscription_create returns once the allocation succeeded.
CreateSuccessResult == -1

\* aeron_subscription_create: aeron_alloc either fails (the output stays
\* NULL, -1 is returned) or succeeds (the fields are initialised).
Create ==
    /\ ~create.called
    /\ \/ /\ subscription' = "null"
          /\ create' = [called |-> TRUE, alloc_ok |-> FALSE, rc |-> -1]
          /\ UNCHANGED <<image_lists_head, next_change_number,
                         last_image_list_change_number, round_robin_index,
                         is_closed>>
       \/ /\ subscription' = "live"
          /\ create' = [called |-> TRUE, alloc_ok |-> TRUE,
                        rc |-> CreateSuccessResult]
          /\ image_lists_head' = NULL
          /\ next_change_number' = 0
          /\ last_image_list_change_number' = -1
          /\ round_robin_index' = 0
          /\ is_closed' = FALSE
    /\ UNCHANGED <<lists, writer, reader, history>>

\* close: marks the subscription closed (called by the polling thread
\* between two poll calls).
Close ==
    /\ Live
    /\ rpc = "idle"
    /\ ~is_closed
    /\ is_closed' = TRUE
    /\ UNCHANGED <<subscription, create, lists, image_lists_head,
                   next_change_number, last_image_list_change_number,
                   round_robin_index, writer, reader, history>>

\* aeron_subscription_delete: frees channel and the struct, not the chain.
Delete ==
    /\ Live
    /\ rpc = "idle"
    /\ wpc = "idle"
    /\ subscription' = "deleted"
    /\ UNCHANGED <<create, lists, image_lists_head, next_change_number,
                   last_image_list_change_number, round_robin_index,
                   is_closed, writer, reader, history>>

\* ------------------------------------------------ conductor (writer) side

\* The chain of image lists reachable from `from` along next_list.
RECURSIVE ChainFrom(_, _)
ChainFrom(from, fuel) ==
    IF from = NULL \/ fuel = 0 THEN <<>>
    ELSE <<from>> \o ChainFrom(lists[from].next_list, fuel - 1)

Chain == ChainFrom(image_lists_head, MaxLists + 1)

SeqToSet(s) == {s[k] : k \in 1..Len(s)}

\* aeron_subscription_alloc_image_list, then the conductor fills the array.
AllocImageList ==
    /\ Live
    /\ wpc = "idle"
    /\ \E n \in ListIds, arr \in ImageArrays :
        /\ lists[n].status = "unallocated"
        /\ \A m \in ListIds : m < n => lists[m].status # "unallocated"
        /\ lists' = [lists EXCEPT ![n] = [status |-> "allocated",
                                          change_number |-> -1,
                                          array |-> arr,
                                          next_list |-> NULL]]
        /\ new_list' = n
    /\ wpc' = "new"
    /\ UNCHANGED <<subscription, create, image_lists_head, next_change_number,
                   last_image_list_change_number, round_robin_index, is_closed,
                   prune_lists_head, last_change_number, pass, reader, history>>

\* Mutant: line 96 without the increment.
NewImageListNumberNoIncrement ==
    /\ Live
    /\ wpc = "new"
    /\ lists' = [lists EXCEPT ![new_list].change_number = next_change_number]
    /\ wpc' = "numbered"
    /\ UNCHANGED <<subscription, create, image_lists_head, next_change_number,
                   last_image_list_change_number, round_robin_index, is_closed,
                   new_list, prune_lists_head, last_change_number, pass, reader,
                   history>>

\* Mutant: the list is stored into the head before it is numbered.
NewImageListPublishFirst ==
    /\ Live
    /\ wpc = "new"
    /\ image_lists_head' = new_list
    /\ wpc' = "numbered"
    /\ UNCHANGED <<subscription, create, lists, next_change_number,
                   last_image_list_change_number, round_robin_index, is_closed,
                   new_list, prune_lists_head, last_change_number, pass, reader,
                   history>>

\* new_image_list, line 96: image_list->change_number = next_change_number++
NewImageListNumber ==
    /\ Live
    /\ wpc = "new"
    /\ lists' = [lists EXCEPT ![new_list].change_number = next_change_number]
    /\ next_change_number' = next_change_number + 1
    /\ wpc' = "numbered"
    /\ UNCHANGED <<subscription, create, image_lists_head,
                   last_image_list_change_number, round_robin_index, is_closed,
                   new_list, prune_lists_head, last_change_number, pass, reader,
                   history>>

\* new_image_list, line 97: image_list->next_list = head.next_list
NewImageListLink ==
    /\ Live
    /\ wpc = "numbered"
    /\ lists' = [lists EXCEPT ![new_list].next_list = image_lists_head]
    /\ wpc' = "linked"
    /\ UNCHANGED <<subscription, create, image_lists_head, next_change_number,
                   last_image_list_change_number, round_robin_index, is_closed,
                   new_list, prune_lists_head, last_change_number, pass, reader,
                   history>>

\* Mutant: the install also rewinds the reader's round-robin index.
NewImageListPublishResetsIndex ==
    /\ Live
    /\ wpc = "linked"
    /\ image_lists_head' = new_list
    /\ installed' = Append(installed, lists[new_list].change_number)
    /\ new_list' = NULL
    /\ wpc' = "idle"
    /\ round_robin_index' = 0
    /\ UNCHANGED <<subscription, create, lists, next_change_number,
                   last_image_list_change_number, is_closed,
                   prune_lists_head, last_change_number, pass, reader,
                   prev_list, prev_start, derefFreed, faulted>>

\* new_image_list, line 99: AERON_PUT_ORDERED(head.next_list, image_list)
NewImageListPublish ==
    /\ Live
    /\ wpc = "linked"
    /\ image_lists_head' = new_list
    /\ installed' = Append(installed, lists[new_list].change_number)
    /\ new_list' = NULL
    /\ wpc' = "idle"
    /\ UNCHANGED <<subscription, create, lists, next_change_number,
                   last_image_list_change_number, round_robin_index, is_closed,
                   prune_lists_head, last_change_number, pass, reader,
                   prev_list, prev_start, derefFreed, faulted>>

\* Mutant: the comparison of line 115 off by one.
KeepListStrict(change_number, last) == change_number > last

\* prune, line 115: the list is kept when its change number is not older
\* than the reader's last change number read at the start of the pass.
KeepList(change_number, last) == change_number >= last

\* The chain as (list, change number) pairs, newest first.
ChainRecords ==
    [k \in 1..Len(Chain) |->
        [id |-> Chain[k], change_number |-> lists[Chain[k]].change_number]]

\* prune_lists_head->next_list
PruneNext ==
    IF prune_lists_head = NULL THEN image_lists_head
    ELSE lists[prune_lists_head].next_list

\* Mutant: the pass reads the conductor's own counter in place of the
\* reader's last change number.
PruneStartReadsWriter ==
    /\ Live
    /\ wpc = "idle"
    /\ prune_lists_head' = NULL
    /\ last_change_number' = next_change_number
    /\ wpc' = "prune"
    /\ pass' = [chain |-> ChainRecords, released |-> <<>>, steps |-> 0]
    /\ UNCHANGED <<shared, new_list, reader, history>>

\* prune, lines 108-111: start at the head, read the reader's change number.
PruneStart ==
    /\ Live
    /\ wpc = "idle"
    /\ prune_lists_head' = NULL
    /\ last_change_number' = last_image_list_change_number
    /\ wpc' = "prune"
    /\ pass' = [chain |-> ChainRecords, released |-> <<>>, steps |-> 0]
    /\ UNCHANGED <<shared, new_list, reader, history>>

\* Mutant: the walk waits until the reader is outside poll.
PruneKeepWaitsForReader ==
    /\ Live
    /\ wpc = "prune"
    /\ rpc = "idle"
    /\ PruneNext # NULL
    /\ KeepList(lists[PruneNext].change_number, last_change_number)
    /\ prune_lists_head' = PruneNext
    /\ pass' = [pass EXCEPT !.steps = @ + 1]
    /\ UNCHANGED <<shared, wpc, new_list, last_change_number, reader, history>>

\* prune, lines 113-118: keep the list and move on.
PruneKeep ==
    /\ Live
    /\ wpc = "prune"
    /\ PruneNext # NULL
    /\ KeepList(lists[PruneNext].change_number, last_change_number)
    /\ prune_lists_head' = PruneNext
    /\ pass' = [pass EXCEPT !.steps = @ + 1]
    /\ UNCHANGED <<shared, wpc, new_list, last_change_number, reader, history>>

\* Mutant: the list is unlinked but line 124 (aeron_free) is missing.
PruneFreeLeaks ==
    /\ Live
    /\ wpc = "prune"
    /\ PruneNext # NULL
    /\ ~KeepList(lists[PruneNext].change_number, last_change_number)
    /\ LET prune_list == PruneNext
           after == lists[prune_list].next_list
       IN  /\ IF prune_lists_head = NULL
              THEN /\ image_lists_head' = after
                   /\ lists' = lists
              ELSE /\ image_lists_head' = image_lists_head
                   /\ lists' = [lists EXCEPT
                                  ![prune_lists_head].next_list = after]
           /\ pass' = [pass EXCEPT !.steps = @ + 1]
    /\ UNCHANGED <<subscription, create, next_change_number,
                   last_image_list_change_number, round_robin_index, is_closed,
                   wpc, new_list, prune_lists_head, last_change_number,
                   reader, history>>

\* Mutant: line 123 stores NULL in place of prune_list->next_list.
PruneFreeDropsTail ==
    /\ Live
    /\ wpc = "prune"
    /\ PruneNext # NULL
    /\ ~KeepList(lists[PruneNext].change_number, last_change_number)
    /\ LET prune_list == PruneNext
       IN  /\ IF prune_lists_head = NULL
              THEN /\ image_lists_head' = NULL
                   /\ lists' = [lists EXCEPT ![prune_list] = FreedList]
              ELSE /\ image_lists_head' = image_lists_head
                   /\ lists' = [lists EXCEPT
                                  ![prune_lists_head].next_list = NULL,
                                  ![prune_list] = FreedList]
           /\ pass' = [pass EXCEPT !.released = Append(@, prune_list),
                                   !.steps = @ + 1]
    /\ UNCHANGED <<subscription, create, next_change_number,
                   last_image_list_change_number, round_robin_index, is_closed,
                   wpc, new_list, prune_lists_head, last_change_number,
                   reader, history>>

\* Mutant: after the free the walk also moves on to the next list, which is
\* then never compared.
PruneFreeSkipsNext ==
    /\ Live
    /\ wpc = "prune"
    /\ PruneNext # NULL
    /\ ~KeepList(lists[PruneNext].change_number, last_change_number)
    /\ LET prune_list == PruneNext
           after == lists[prune_list].next_list
       IN  /\ IF prune_lists_head = NULL
              THEN /\ image_lists_head' = after
                   /\ lists' = [lists EXCEPT ![prune_list] = FreedList]
              ELSE /\ image_lists_head' = image_lists_head
                   /\ lists' = [lists EXCEPT
                                  ![prune_lists_head].next_list = after,
                                  ![prune_list] = FreedList]
           /\ prune_lists_head' = IF after = NULL THEN prune_lists_head
                                  ELSE after
           /\ pass' = [pass EXCEPT !.released = Append(@, prune_list),
                                   !.steps = @ + 1]
    /\ UNCHANGED <<subscription, create, next_change_number,
                   last_image_list_change_number, round_robin_index, is_closed,
                   wpc, new_list, last_change_number, reader, history>>

\* prune, lines 119-125: unlink the list from its parent and free it.
PruneFree ==
    /\ Live
    /\ wpc = "prune"
    /\ PruneNext # NULL
    /\ ~KeepList(lists[PruneNext].change_number, last_change_number)
    /\ LET prune_list == PruneNext
           after == lists[prune_list].next_list
       IN  /\ IF prune_lists_head = NULL
              THEN /\ image_lists_head' = after
                   /\ lists' = [lists EXCEPT ![prune_list] = FreedList]
              ELSE /\ image_lists_head' = image_lists_head
                   /\ lists' = [lists EXCEPT
                                  ![prune_lists_head].next_list = after,
                                  ![prune_list] = FreedList]
           /\ pass' = [pass EXCEPT !.released = Append(@, prune_list),
                                   !.steps = @ + 1]
    /\ UNCHANGED <<subscription, create, next_change_number,
                   last_image_list_change_number, round_robin_index, is_closed,
                   wpc, new_list, prune_lists_head, last_change_number,
                   reader, history>>

\* prune, lines 113 and 128: the end of the chain; the locals die.
PruneReturn ==
    /\ Live
    /\ wpc = "prune"
    /\ PruneNext = NULL
    /\ wpc' = "idle"
    /\ prune_lists_head' = NULL
    /\ last_change_number' = -1
    /\ pass' = NoPass
    /\ UNCHANGED <<shared, new_list, reader, history>>

\* ----------------------------------------------------- reader (poll) side

\* A read through image_list: it hits released memory when the list is freed.
ReadsFreed == image_list # NULL /\ lists[image_list].status = "freed"

\* Mutant: the stored index is never advanced.
NextRoundRobinStuck(rri, len) == 0

\* Mutant: lines 141-144 (the reset) are missing.
StartingIndexNoReset(rri, len) == rri

\* poll, lines 140-144: the starting index and the stored index after it.
StartingIndex(rri, len) == IF rri >= len THEN 0 ELSE rri
NextRoundRobin(rri, len) == IF rri >= len THEN 0 ELSE rri + 1

\* Mutant: the first loop without its limit check.
Loop1IgnoresLimit == i < length

\* poll, lines 146 and 151: the loops' conditions.
Loop1Continues == i < length /\ fragments_read < fragment_limit
Loop2Continues == i < starting_index /\ fragments_read < fragment_limit

\* Mutant: = in place of +=.
AccumulateOverwrites(read, count) == count

\* poll, lines 148 and 153: fragments_read += aeron_image_poll(...)
Accumulate(read, count) == read + count

\* poll, line 136: AERON_GET_VOLATILE(image_list, head.next_list)
PollLoad ==
    /\ Live
    /\ rpc = "idle"
    /\ \E limit \in FragmentLimits : fragment_limit' = limit
    /\ image_list' = image_lists_head
    /\ rpc' = "loaded"
    /\ calls' = <<>>
    /\ UNCHANGED <<shared, writer, length, starting_index, fragments_read, i,
                   history>>

\* poll, lines 138-144. image_list is dereferenced without a NULL check; the
\* accesses are volatile, so the load from page 0 is issued and faults.
PollBegin ==
    /\ Live
    /\ rpc = "loaded"
    /\ IF image_list = NULL
       THEN /\ faulted' = TRUE
            /\ rpc' = "fault"
            /\ UNCHANGED <<round_robin_index, length, starting_index,
                           fragments_read, i, derefFreed>>
       ELSE /\ length' = Len(lists[image_list].array)
            /\ fragments_read' = 0
            /\ starting_index' =
                 StartingIndex(round_robin_index, Len(lists[image_list].array))
            /\ round_robin_index' =
                 NextRoundRobin(round_robin_index, Len(lists[image_list].array))
            /\ i' = starting_index'
            /\ rpc' = "loop1"
            /\ derefFreed' = (derefFreed \/ ReadsFreed)
            /\ UNCHANGED faulted
    /\ UNCHANGED <<subscription, create, lists, image_lists_head,
                   next_change_number, last_image_list_change_number,
                   is_closed, writer, image_list, fragment_limit, calls,
                   prev_list, prev_start, installed>>

\* One aeron_image_poll(image_list->array[i], ..., fragment_limit -
\* fragments_read): the image returns between 0 and the limit it is given.
ImagePoll ==
    /\ \E count \in 0..Min(fragment_limit - fragments_read, MaxYield) :
        /\ fragments_read' = Accumulate(fragments_read, count)
        /\ calls' = Append(calls, [index |-> i,
                                   image |-> IF ReadsFreed THEN NULL
                                             ELSE lists[image_list].array[i + 1],
                                   limit |-> fragment_limit - fragments_read,
                                   count |-> count])
    /\ i' = i + 1
    /\ derefFreed' = (derefFreed \/ ReadsFreed)

\* poll, lines 146-149: one iteration of the first loop.
PollImage1 ==
    /\ Live
    /\ rpc = "loop1"
    /\ Loop1Continues
    /\ ImagePoll
    /\ UNCHANGED <<shared, writer, rpc, image_list, length, starting_index,
                   fragment_limit, prev_list, prev_start, installed, faulted>>

\* poll, lines 146 and 151: the first loop ends, the second starts at 0.
PollLoop1Exit ==
    /\ Live
    /\ rpc = "loop1"
    /\ ~Loop1Continues
    /\ i' = 0
    /\ rpc' = "loop2"
    /\ UNCHANGED <<shared, writer, image_list, length, starting_index,
                   fragments_read, fragment_limit, calls, history>>

\* poll, lines 151-154: one iteration of the second loop.
PollImage2 ==
    /\ Live
    /\ rpc = "loop2"
    /\ Loop2Continues
    /\ ImagePoll
    /\ UNCHANGED <<shared, writer, rpc, image_list, length, starting_index,
                   fragment_limit, prev_list, prev_start, installed, faulted>>

\* poll, lines 151 and 156: the second loop ends; the list's change number
\* is compared with the last one published.
PollCheck ==
    /\ Live
    /\ rpc = "loop2"
    /\ ~Loop2Continues
    /\ derefFreed' = (derefFreed \/ ReadsFreed)
    /\ rpc' = IF lists[image_list].change_number > last_image_list_change_number
              THEN "publish" ELSE "return"
    /\ UNCHANGED <<shared, writer, image_list, length, starting_index,
                   fragments_read, fragment_limit, i, calls, prev_list,
                   prev_start, installed, faulted>>

\* Mutant: line 158 publishes the change number of the current head list,
\* not of the list this call polled.
PollPublishAhead ==
    /\ Live
    /\ rpc = "publish"
    /\ derefFreed' = (derefFreed \/ ReadsFreed)
    /\ last_image_list_change_number' = lists[image_list].change_number + 1
    /\ rpc' = "return"
    /\ UNCHANGED <<subscription, create, lists, image_lists_head,
                   next_change_number, round_robin_index, is_closed, writer,
                   image_list, length, starting_index, fragments_read,
                   fragment_limit, i, calls, prev_list, prev_start, installed,
                   faulted>>

PollPublishReadsHead ==
    /\ Live
    /\ rpc = "publish"
    /\ derefFreed' = (derefFreed \/ ReadsFreed)
    /\ last_image_list_change_number' = lists[image_lists_head].change_number
    /\ rpc' = "return"
    /\ UNCHANGED <<subscription, create, lists, image_lists_head,
                   next_change_number, round_robin_index, is_closed, writer,
                   image_list, length, starting_index, fragments_read,
                   fragment_limit, i, calls, prev_list, prev_start, installed,
                   faulted>>

\* poll, line 158: AERON_PUT_ORDERED(last_image_list_change_number, ...)
PollPublish ==
    /\ Live
    /\ rpc = "publish"
    /\ derefFreed' = (derefFreed \/ ReadsFreed)
    /\ last_image_list_change_number' = lists[image_list].change_number
    /\ rpc' = "return"
    /\ UNCHANGED <<subscription, create, lists, image_lists_head,
                   next_change_number, round_robin_index, is_closed, writer,
                   image_list, length, starting_index, fragments_read,
                   fragment_limit, i, calls, prev_list, prev_start, installed,
                   faulted>>

\* poll, line 161: return fragments_read; the locals die.
PollReturn ==
    /\ Live
    /\ rpc = "return"
    /\ prev_list' = image_list
    /\ prev_start' = starting_index
    /\ rpc' = "idle"
    /\ image_list' = NULL
    /\ length' = 0
    /\ starting_index' = 0
    /\ fragments_read' = 0
    /\ fragment_limit' = 0
    /\ i' = 0
    /\ calls' = <<>>
    /\ UNCHANGED <<shared, writer, installed, derefFreed, faulted>>

\* ---------------------------------------------------------- specification

Next ==
    \/ Create
    \/ Delete
    \/ AllocImageList
    \/ NewImageListNumber
    \/ NewImageListLink
    \/ NewImageListPublish
    \/ PruneStart
    \/ PruneKeep
    \/ PruneFree
    \/ PruneReturn
    \/ PollLoad
    \/ PollBegin
    \/ PollImage1
    \/ PollLoop1Exit
    \/ PollImage2
    \/ PollCheck
    \/ PollPublish
    \/ PollReturn

Spec == Init /\ [][Next]_vars

\* The same program with close called by the application.
NextClose ==
    \/ Next
    \/ Close

SpecClose == Init /\ [][NextClose]_vars

\* The application polling again and again a subscription whose first image
\* list is installed, while the conductor does nothing: the state after
\* create and one new_image_list.
InitPolling ==
    /\ subscription = "live"
    /\ create = [called |-> TRUE, alloc_ok |-> TRUE, rc |-> CreateSuccessResult]
    /\ \E arr \in ImageArrays :
           lists = [n \in ListIds |->
                      IF n = 1 THEN [status |-> "allocated", change_number |-> 0,
                                     array |-> arr, next_list |-> NULL]
                      ELSE FreshList]
    /\ image_lists_head = 1
    /\ next_change_number = 1
    /\ last_image_list_change_number = -1
    /\ round_robin_index = 0
    /\ is_closed = FALSE
    /\ wpc = "idle"
    /\ new_list = NULL
    /\ prune_lists_head = NULL
    /\ last_change_number = -1
    /\ pass = NoPass
    /\ rpc = "idle"
    /\ image_list = NULL
    /\ length = 0
    /\ starting_index = 0
    /\ fragments_read = 0
    /\ fragment_limit = 0
    /\ i = 0
    /\ calls = <<>>
    /\ prev_list = NULL
    /\ prev_start = 0
    /\ installed = <<0>>
    /\ derefFreed = FALSE
    /\ faulted = FALSE

NextPolling ==
    \/ PollLoad
    \/ PollBegin
    \/ PollImage1
    \/ PollLoop1Exit
    \/ PollImage2
    \/ PollCheck
    \/ PollPublish
    \/ PollReturn

\* The polling thread keeps running: every poll call runs to its end and is
\* followed by another.
SpecPolling == InitPolling /\ [][NextPolling]_vars /\ WF_vars(NextPolling)

\* ------------------------------------------------------------ properties

\* The reader is inside a poll call and holds the list it loaded.
Holding == rpc \in {"loaded", "loop1", "loop2", "publish", "return"}
           /\ image_list # NULL
\* The reader is past lines 138-144 of a poll call.
InPoll == rpc \in {"loop1", "loop2", "publish", "return"}
\* Both loops of the poll call are over.
LoopsDone == rpc \in {"publish", "return"}

Released == {n \in ListIds : lists[n].status = "freed"}

\* C1: in every interleaving of the reader's steps with the conductor's
\* installs and prune passes, the image list a poll call loaded is not
\* released before that call returns, and the reader never reads a released
\* image list.
C1_ReaderNeverReadsReleased ==
    /\ ~derefFreed
    /\ Holding => lists[image_list].status = "allocated"

\* A prune pass that read the change number of the very list the reader is
\* still polling has walked the whole chain and released an older list.
C1_Witness ==
    /\ rpc \in {"loop1", "loop2"}
    /\ image_list # NULL
    /\ image_list # image_lists_head
    /\ wpc = "prune"
    /\ PruneNext = NULL
    /\ last_change_number = lists[image_list].change_number
    /\ Released # {}

\* C2: poll on a subscription on which no image list was ever installed
\* (the loaded head is NULL) returns 0 fragments and does not fault.
C2_PollOnEmptyReturnsZero ==
    (rpc # "idle" /\ image_list = NULL) =>
        (~faulted /\ rpc # "fault" /\ fragments_read = 0)

C3_ChainHasObserved ==
    last_image_list_change_number >= 0 =>
        \E n \in SeqToSet(Chain) :
            /\ lists[n].status = "allocated"
            /\ lists[n].change_number = last_image_list_change_number

C3_ReleaseOnlyOlder ==
    \A n \in ListIds :
        (lists[n].status = "allocated" /\ lists'[n].status = "freed") =>
            /\ wpc = "prune"
            /\ lists[n].change_number < last_change_number
            /\ last_change_number <= last_image_list_change_number

\* C3: a prune pass releases an image list only if its change number is
\* strictly less than the last change number read at the start of the pass,
\* and the chain from the head always holds the list whose change number is
\* the last one the reader published.
C3_ReclamationSafety == [](C3_ChainHasObserved) /\ [][C3_ReleaseOnlyOlder]_vars

\* A pass has released a list and kept two, the older of them the one the
\* reader published.
C3_Witness ==
    /\ wpc = "prune"
    /\ Released # {}
    /\ Len(Chain) >= 2
    /\ last_image_list_change_number >= 1
    /\ last_change_number = last_image_list_change_number
    /\ lists[Chain[2]].change_number = last_image_list_change_number

\* C4: on the same head list of length n >= 1 (no install between the two
\* calls) the starting index of a poll call is the previous call's starting
\* index plus one modulo n, also across the wrap.
C4_StartAdvancesModN ==
    (InPoll /\ image_list = prev_list /\ length >= 1) =>
        starting_index = (prev_start + 1) % length

\* C5: create returns a negative result exactly when the allocation failed,
\* and then outputs no subscription; when the allocation succeeds it
\* returns a non-negative result and outputs the subscription.
C5_CreateResult ==
    create.called =>
        /\ (create.rc < 0) <=> ~create.alloc_ok
        /\ create.alloc_ok <=> (subscription # "null")

\* C6: once the subscription is closed every poll is a no-op returning 0:
\* it polls no image and changes neither round_robin_index nor
\* last_image_list_change_number.
C6_ClosedPollIsNoOp ==
    [][is_closed =>
        /\ round_robin_index' = round_robin_index
        /\ last_image_list_change_number' = last_image_list_change_number
        /\ Len(calls') <= Len(calls)
        /\ fragments_read' = 0]_vars

\* C7: the k-th image list published (k from 0) has change number k, so
\* every published list's change number is strictly greater than those of
\* all lists published before it and no two are equal.
C7_VersionMonotonic ==
    /\ \A k \in 1..Len(installed) : installed[k] = k - 1
    /\ \A a, b \in 1..Len(installed) : a < b => installed[a] < installed[b]
    /\ \A n \in SeqToSet(Chain) : lists[n].change_number < next_change_number

\* Every list was published while polls and prune passes went on.
C7_Witness ==
    /\ Len(installed) = MaxLists
    /\ Released # {}
    /\ last_image_list_change_number >= 1

\* C8: one poll call on a list of length n makes at most n image polls, no
\* image twice; each is given fragment_limit minus the fragments read so
\* far, which is positive; the total is at most fragment_limit.
C8_BoundedWork ==
    InPoll =>
        /\ Len(calls) <= length
        /\ \A a, b \in 1..Len(calls) :
               a # b => calls[a].index # calls[b].index
        /\ \A a \in 1..Len(calls) :
               /\ calls[a].limit > 0
               /\ calls[a].limit =
                      fragment_limit - SumCounts(SubSeq(calls, 1, a - 1))
               /\ calls[a].count \in 0..calls[a].limit
        /\ fragments_read <= fragment_limit
        /\ fragments_read >= 0

\* A call that polled every image of a list of the greatest length and read
\* the limit with the last one.
C8_Witness ==
    /\ rpc = "return"
    /\ length = MaxLen
    /\ Len(calls) = length
    /\ fragment_limit > 0
    /\ fragments_read = fragment_limit

C9_Constructed ==
    /\ \A n \in SeqToSet(Chain) :
           lists[n].status = "allocated" /\ lists[n].change_number >= 0
    /\ Holding => /\ lists[image_list].change_number >= 0
                  /\ image_list # new_list
    /\ new_list # NULL => new_list \notin SeqToSet(Chain)

C9_PublishIsLast ==
    (image_lists_head' # image_lists_head /\ wpc # "prune") =>
        /\ wpc = "linked"
        /\ wpc' = "idle"
        /\ image_lists_head' = new_list
        /\ lists' = lists
        /\ lists[new_list].next_list = image_lists_head
        /\ lists[new_list].change_number = next_change_number - 1

\* C9: with install taken step by step, the list a poll obtains from the
\* head is fully constructed: its change number is assigned (not the -1 of
\* the allocation) and its next_list is the previous head; the store into
\* the head is the last step of the install.
C9_NoPartialList == [](C9_Constructed) /\ [][C9_PublishIsLast]_vars

\* The reader loaded a head list that has a predecessor while the next
\* install is under way.
C9_Witness ==
    /\ rpc = "loaded"
    /\ image_list # NULL
    /\ lists[image_list].next_list # NULL
    /\ wpc \in {"numbered", "linked"}

\* C10: a poll call on a list of length n from starting index s visits
\* s, s+1, ..., n-1, 0, ..., s-1 in this order, stops at the first point
\* where the fragments read reach fragment_limit or all n images were tried,
\* and returns the sum of the counts the image polls returned.
C10_RoundRobinOrder ==
    /\ InPoll =>
           \A j \in 1..Len(calls) :
               /\ calls[j].index = (starting_index + j - 1) % length
               /\ calls[j].image = lists[image_list].array[calls[j].index + 1]
    /\ LoopsDone =>
           /\ fragments_read = SumCounts(calls)
           /\ Len(calls) = length \/ SumCounts(calls) >= fragment_limit
           /\ \A j \in 0..(Len(calls) - 1) :
                  SumCounts(SubSeq(calls, 1, j)) < fragment_limit

\* A call that started at index 1 of two images, wrapped to index 0 and
\* returns 1 of a limit of 10; the stored index is past the end.
C10_Witness ==
    /\ rpc = "return"
    /\ length = 2
    /\ starting_index = 1
    /\ fragment_limit = 10
    /\ Len(calls) = 2
    /\ calls[1].index = 1
    /\ calls[2].index = 0
    /\ fragments_read = 1
    /\ round_robin_index = 2

Allocated == {n \in ListIds : lists[n].status = "allocated"}
\* The prune pass has reached the end of the chain.
PassOver == wpc = "prune" /\ PruneNext = NULL

\* C11: a prune pass that runs while last_image_list_change_number is still
\* the initial -1 releases nothing, however many lists are installed; and a
\* pass that starts when the reader has published the head list's change
\* number h releases every list older than h and leaves the head list alone
\* in the chain.
C11_PruneScenarios ==
    /\ (last_image_list_change_number = -1
        \/ (wpc = "prune" /\ last_change_number = -1)) =>
           /\ Released = {}
           /\ pass.released = <<>>
           /\ SeqToSet(Chain) = Allocated \ {new_list}
    /\ (PassOver /\ image_lists_head # NULL
        /\ last_change_number = lists[image_lists_head].change_number) =>
           /\ Chain = <<image_lists_head>>
           /\ Allocated = {image_lists_head}
           /\ Released = {n \in ListIds : n < image_lists_head}
           /\ \A k \in 2..Len(pass.chain) :
                  lists[pass.chain[k].id].status = "freed"

\* The pass that followed a poll of the third list has released the two
\* older lists and kept the head.
C11_Witness ==
    /\ PassOver
    /\ image_lists_head # NULL
    /\ last_change_number = 2
    /\ lists[image_lists_head].change_number = 2
    /\ Len(pass.chain) = 3
    /\ Len(pass.released) = 2

\* Scenario D: two lists installed, a whole pass run before any poll.
C11_WitnessNoPoll ==
    /\ PassOver
    /\ last_image_list_change_number = -1
    /\ Len(Chain) = 2
    /\ pass.steps = 2

\* A poll call is about to poll the image at index k first.
StartsAt(k) == rpc = "loop1" /\ calls = <<>> /\ starting_index = k /\ i = k

C12_FirstIsStart ==
    InPoll =>
        /\ calls # <<>> => calls[1].index = starting_index
        /\ (rpc # "loop1" /\ fragment_limit > 0 /\ length >= 1) => calls # <<>>

\* C12: under repeated poll calls on a fixed head list of length n >= 1,
\* every index below n is the starting index of infinitely many calls, and
\* the image at the starting index is the first one polled by a call with a
\* positive limit, so every image is polled again and again even when the
\* first image polled always takes the whole limit.
C12_NoStarvation ==
    /\ [](C12_FirstIsStart)
    /\ \A k \in 0..(MaxLen - 1) :
           []<>(k >= Len(lists[image_lists_head].array) \/ StartsAt(k))

\* A call that started at the last index of the longest list and whose first
\* image took the whole limit.
C12_Witness ==
    /\ rpc = "return"
    /\ length = MaxLen
    /\ starting_index = MaxLen - 1
    /\ Len(calls) = 1
    /\ calls[1].index = MaxLen - 1
    /\ fragment_limit > 0
    /\ calls[1].count = fragment_limit
    /\ prev_list = image_list

\* C13: when the stored index is not below the length n of the list the
\* poll loaded (the list shrank, or is empty) the call starts at index 0 and
\* stores 0; every index poll passes to an image poll, and every index its
\* loops are about to use, is within 0..n-1 of that list.
C13_IndexInRange ==
    InPoll =>
        /\ length = Len(lists[image_list].array)
        /\ \/ starting_index < length /\ round_robin_index = starting_index + 1
           \/ starting_index = 0 /\ round_robin_index = 0
        /\ \A a \in 1..Len(calls) : calls[a].index \in 0..(length - 1)
        /\ (rpc = "loop1" /\ Loop1Continues) => i \in 0..(length - 1)
        /\ (rpc = "loop2" /\ Loop2Continues) => i \in 0..(length - 1)

\* The previous call started at index 1 of a list of two images; this call
\* loaded a new list of one image and restarts at index 0.
C13_Witness ==
    /\ rpc = "loop1"
    /\ calls = <<>>
    /\ prev_list # NULL
    /\ prev_list # image_list
    /\ prev_start = 1
    /\ length = 1
    /\ starting_index = 0
    /\ round_robin_index = 0

\* The lists published so far and not released.
Installed == Allocated \ {new_list}

C14_InstalledIsFrozen ==
    \A n \in Installed :
        lists'[n].status = "allocated" =>
            /\ lists'[n].array = lists[n].array
            /\ lists'[n].change_number = lists[n].change_number
            /\ lists'[n].next_list # lists[n].next_list =>
                   /\ wpc = "prune"
                   /\ n = prune_lists_head
                   /\ lists[lists[n].next_list].change_number
                          < last_change_number
                   /\ lists'[lists[n].next_list].status = "freed"
                   /\ lists'[n].next_list = lists[lists[n].next_list].next_list

\* C14: once an image list is installed its array, length and change number
\* never change under any later install, poll or prune step; its next_list
\* is changed only by a prune pass, and only to skip a list that the same
\* step releases, whose change number is below the value the pass read at
\* its start.
C14_SnapshotImmutable == [][C14_InstalledIsFrozen]_vars

\* A pass has just made a kept list skip the two older lists it released.
C14_Witness ==
    /\ wpc = "prune"
    /\ prune_lists_head # NULL
    /\ Len(pass.chain) = 3
    /\ Len(pass.released) = 2
    /\ lists[prune_lists_head].next_list = NULL
    /\ rpc \in {"loop1", "loop2"}

\* A step of the conductor inside alloc/new_image_list/prune, and a step of
\* the reader inside poll.
WriterStep == writer' # writer \/ lists' # lists \/ image_lists_head' # image_lists_head
ReaderStep == reader' # reader

C15_Frames ==
    /\ WriterStep =>
           /\ round_robin_index' = round_robin_index
           /\ last_image_list_change_number' = last_image_list_change_number
    /\ ReaderStep =>
           /\ image_lists_head' = image_lists_head
           /\ next_change_number' = next_change_number
           /\ \A n \in ListIds : lists'[n].next_list = lists[n].next_list

\* C15: the steps of install and prune leave round_robin_index and
\* last_image_list_change_number unchanged; the steps of poll leave the head,
\* every next_list and next_change_number unchanged.
C15_DisjointWrites == [][C15_Frames]_vars

\* Both threads are in the middle of an operation: the prune pass has
\* released a list, the poll has advanced the index and is about to publish.
C15_Witness ==
    /\ wpc = "prune"
    /\ pass.released # <<>>
    /\ rpc = "publish"
    /\ round_robin_index >= 1
    /\ last_image_list_change_number >= 0

Max(a, b) == IF a > b THEN a ELSE b

C16_StoreStep ==
    /\ last_image_list_change_number' >= last_image_list_change_number
    /\ last_image_list_change_number' # last_image_list_change_number =>
           /\ rpc = "publish" /\ rpc' = "return"
           /\ calls' = calls
    /\ (LoopsDone /\ rpc' # "idle") => calls' = calls
    /\ (rpc \in {"loop2", "publish"} /\ rpc' = "return") =>
           last_image_list_change_number' =
               Max(last_image_list_change_number,
                   lists[image_list].change_number)
    /\ (rpc = "loop2" /\ rpc' = "publish") =>
           lists[image_list].change_number > last_image_list_change_number

\* C16: when a poll call that loaded list S reaches its return,
\* last_image_list_change_number is the maximum of its value before the call
\* and S's change number; the store is made after the last image poll of the
\* call; and the value never decreases under any step.
C16_LastObservedIsMax ==
    /\ [][C16_StoreStep]_vars
    /\ [](rpc = "return" =>
             last_image_list_change_number >= lists[image_list].change_number)

\* A second call on the same list returns without a store while a newer
\* list is already installed.
C16_Witness ==
    /\ rpc = "return"
    /\ prev_list = image_list
    /\ image_list # image_lists_head
    /\ lists[image_list].change_number >= 1
    /\ last_image_list_change_number = lists[image_list].change_number
    /\ calls # <<>>

Ids(recs) == [k \in 1..Len(recs) |-> recs[k].id]
PassKept == SelectSeq(pass.chain, LAMBDA r : r.change_number >= last_change_number)
PassOlder == SelectSeq(pass.chain, LAMBDA r : r.change_number < last_change_number)

\* C17: a prune pass that read L at its start ends with the chain holding
\* exactly the lists that were in it with change number >= L, in their
\* order, and with every list of the chain with change number < L released
\* exactly once; the walk never meets a released list.
C17_PruneResult ==
    /\ wpc = "prune" =>
           /\ PruneNext # NULL => lists[PruneNext].status = "allocated"
           /\ \A a, b \in 1..Len(pass.released) :
                  a # b => pass.released[a] # pass.released[b]
           /\ \A a \in 1..Len(pass.released) :
                  lists[pass.released[a]].status = "freed"
    /\ PassOver =>
           /\ Chain = Ids(PassKept)
           /\ \A k \in 1..Len(PassKept) :
                  /\ lists[PassKept[k].id].status = "allocated"
                  /\ lists[PassKept[k].id].change_number
                         = PassKept[k].change_number
           /\ pass.released = Ids(PassOlder)

\* A pass over three lists that read 1 has kept the two newer lists and
\* released the oldest one.
C17_Witness ==
    /\ PassOver
    /\ last_change_number = 1
    /\ Len(pass.chain) = 3
    /\ Len(Chain) = 2
    /\ Len(pass.released) = 1

\* The conductor's and the reader's next step inside an operation.
WriterNext ==
    \/ NewImageListNumber \/ NewImageListLink \/ NewImageListPublish
    \/ PruneKeep \/ PruneFree \/ PruneReturn
ReaderNext ==
    \/ PollBegin \/ PollImage1 \/ PollLoop1Exit \/ PollImage2
    \/ PollCheck \/ PollPublish \/ PollReturn

\* C18: no operation waits for the other thread. While the process runs, a
\* thread inside an operation always has its next step enabled, whatever
\* the other thread's position; a prune pass makes one loop iteration per
\* list of the chain it started on, and a poll call makes at most n image
\* polls, its loop indices bounded by n.
C18_NonBlocking ==
    /\ (Live /\ wpc # "idle") => ENABLED WriterNext
    /\ (Live /\ rpc # "idle") => ENABLED ReaderNext
    /\ wpc = "prune" =>
           /\ pass.steps <= Len(pass.chain)
           /\ pass.steps + Len(ChainFrom(PruneNext, MaxLists + 1))
                  = Len(pass.chain)
    /\ InPoll =>
           /\ Len(calls) <= length
           /\ rpc = "loop1" =>
                  i <= length /\ Len(calls) = i - starting_index
           /\ rpc = "loop2" =>
                  /\ i <= starting_index
                  /\ Len(calls) <= (length - starting_index) + i

\* A pass is in the middle of a chain of three lists while a poll is in the
\* middle of its second loop.
C18_Witness ==
    /\ wpc = "prune"
    /\ Len(pass.chain) = 3
    /\ pass.steps = 2
    /\ rpc = "loop2"
    /\ i = 1
    /\ Len(calls) = 2

\* The chain is finite and acyclic, its lists are live and their change
\* numbers strictly decrease along next_list.
C19_ChainShape ==
    LET c == Chain
        v == [k \in 1..Len(c) |-> lists[c[k]].change_number]
    IN  /\ Len(c) <= MaxLists
        /\ \A a, b \in 1..Len(c) : a # b => c[a] # c[b]
        /\ \A k \in 1..Len(c) : lists[c[k]].status = "allocated"
        /\ \A a, b \in 1..Len(c) : a < b => v[a] > v[b]

\* Once the walk meets a list older than the value the pass read, every
\* list after it is older too.
C19_OlderSuffix ==
    (wpc = "prune" /\ PruneNext # NULL
     /\ lists[PruneNext].change_number < last_change_number) =>
        \A n \in SeqToSet(ChainFrom(PruneNext, MaxLists + 1)) :
            lists[n].change_number < last_change_number

\* C19 as stated: in every reachable state the chain is finite and acyclic
\* with strictly decreasing change numbers, and the head list holds the
\* largest one, equal to next_change_number - 1.
C19_HeadIsNextMinusOne ==
    /\ C19_ChainShape
    /\ C19_OlderSuffix
    /\ image_lists_head # NULL =>
           lists[image_lists_head].change_number = next_change_number - 1

\* C19, the window of an install excepted: the same, the head list's
\* change number being next_change_number - 1 except between the increment of line 96 and the
\* store of line 99 of an install, where it is next_change_number - 2 and
\* the list being installed holds next_change_number - 1.
C19_ChainDecreasing ==
    /\ C19_ChainShape
    /\ C19_OlderSuffix
    /\ image_lists_head # NULL =>
           lists[image_lists_head].change_number =
               IF wpc \in {"numbered", "linked"}
               THEN next_change_number - 2 ELSE next_change_number - 1
    /\ wpc \in {"numbered", "linked"} =>
           lists[new_list].change_number = next_change_number - 1
    /\ image_lists_head = NULL => next_change_number = Len(installed) +
           (IF wpc \in {"numbered", "linked"} THEN 1 ELSE 0)

\* The walk has kept the head and meets the first of two older lists.
C19_Witness ==
    /\ wpc = "prune"
    /\ prune_lists_head = image_lists_head
    /\ PruneNext # NULL
    /\ lists[PruneNext].change_number < last_change_number
    /\ Len(ChainFrom(PruneNext, MaxLists + 1)) = 2

\* C20: once a list has been installed, last_image_list_change_number never
\* exceeds the head list's change number, so a prune pass keeps the head:
\* image_lists_head is never NULL again, the head list is never freed or
\* unlinked and the chain is never empty; a deleted subscription that had a
\* list installed leaves at least one list that was never freed.
C20_HeadSurvives ==
    installed # <<>> =>
        /\ image_lists_head # NULL
        /\ Chain # <<>>
        /\ lists[image_lists_head].status = "allocated"
        /\ image_lists_head \notin SeqToSet(pass.released)
        /\ last_image_list_change_number
               <= lists[image_lists_head].change_number
        /\ wpc = "prune" =>
               /\ last_change_number <= lists[image_lists_head].change_number
               /\ pass.chain # <<>>
               /\ pass.chain[1].id = image_lists_head
        /\ subscription = "deleted" =>
               \E n \in ListIds : lists[n].status = "allocated"

\* Delete after a pass that freed every list but the head.
C20_Witness ==
    /\ subscription = "deleted"
    /\ Len(installed) >= 2
    /\ Released # {}
    /\ Len(Chain) = 1
    /\ last_image_list_change_number = lists[image_lists_head].change_number

====
